---- MODULE Spec2Model ----
(***************************************************************************)
(* Model of the user-registration backend: the UserCreate request model    *)
(* with its rating validator, the users table with its unique and CHECK    *)
(* constraints, the request-scoped session dependency get_db, and the two  *)
(* endpoints create_user (POST /users/) and read_users (GET /users/).      *)
(*                                                                         *)
(* Requests run concurrently.  Every statement a handler sends to the      *)
(* storage engine (the two pre-check queries, the insert/commit, the       *)
(* listing query) is one atomic step; steps of different requests          *)
(* interleave freely.                                                      *)
(***************************************************************************)
EXTENDS Integers, Sequences, FiniteSets, TLC

VARIABLES
    dialect,       \* storage engine selected by DATABASE_URL
    users,         \* the users table, rows in rowid order
    nextId,        \* next value of the autoincrement primary key
    nextSession,   \* number of sessions SessionLocal() has created so far
    openSessions,  \* sessions created and not yet closed
    pc,            \* position of each request slot in its handler
    kind,          \* "create" or "list" for the request in the slot
    req,           \* the request: JSON body or query parameters
    db,            \* the session get_db yielded to the request
    txn,           \* TRUE once the request's session has sent a statement
    resp           \* the response of the slot's request, once produced

vars == <<dialect, users, nextId, nextSession, openSessions,
          pc, kind, req, db, txn, resp>>

----------------------------------------------------------------------------
(* Bounds *)

NReq        == 2    \* request slots, i.e. requests in flight at once
MaxRequests == 3    \* requests started in one behaviour
MaxSkip     == 2    \* largest skip a listing request carries
MaxLimit    == 2    \* largest limit a listing request carries
MaxSerial   == 3    \* requests started in one behaviour of SerialSpec

Reqs == 1..NReq

----------------------------------------------------------------------------
(* Numbers.  A float rating is kept in two limbs: tenths, the nearest      *)
(* multiple of 0.1, and ulps, the signed distance from it in units of      *)
(* 1e-10.  The value is tenths/10 + ulps/10^10, with |ulps| far below the  *)
(* 5*10^8 that would reach the next tenth, so comparison is lexicographic. *)

Num(t, u) == [tenths |-> t, ulps |-> u]

Abs(n) == IF n < 0 THEN -n ELSE n

NumLeq(a, b) == \/ a.tenths < b.tenths
                \/ a.tenths = b.tenths /\ a.ulps <= b.ulps

\* 1e-9 in units of 1e-10
epsilon == 10

\* |scaled_value - round(scaled_value)| for scaled_value = value * 2, as a
\* two-limb number.  value*2 is 2*tenths tenths and 2*ulps ulps; the nearest
\* integer is the nearest multiple of ten tenths.
ScaledDistance(value) ==
    LET m == (2 * value.tenths) % 10
        d == IF m <= 5 THEN m ELSE 10 - m
    IN  IF d = 0 THEN Num(0, Abs(2 * value.ulps))
        ELSE Num(d, IF m <= 5 THEN 2 * value.ulps ELSE -(2 * value.ulps))

----------------------------------------------------------------------------
(* Request bodies.  A JSON body is a record: has is the set of keys that   *)
(* are present; rating_null says the rating key carries null.              *)

NoneStr == "None"

Body(h, u, e, f, n, r) ==
    [has |-> h, username |-> u, email |-> e, full_name |-> f,
     rating_null |-> n, rating |-> r,
     skip |-> 0, limit |-> 0]

Query(s, l) ==
    [has |-> {}, username |-> "", email |-> <<>>, full_name |-> NoneStr,
     rating_null |-> FALSE, rating |-> Num(0, 0),
     skip |-> s, limit |-> l]

NoReq == Query(0, 0)

\* EmailStr: one "@", a non-empty local part, a domain with an inner dot.
Count(s, c) == Cardinality({i \in 1..Len(s) : s[i] = c})

IsEmail(s) ==
    /\ Count(s, "@") = 1
    /\ LET at == CHOOSE i \in 1..Len(s) : s[i] = "@"
       IN  /\ at > 1
           /\ \E i \in (at + 2)..(Len(s) - 1) : s[i] = "."
           /\ s[at + 1] # "."

\* UserCreate.rating_must_be_valid: the error message, or "" when valid.
RangeMsg     == "Rating must be between 1.0 and 5.0"
IncrementMsg == "Rating must be in increments of 0.5 (e.g., 1.0, 1.5, 2.0)"
NumberMsg    == "Input should be a valid number"
RequiredMsg  == "Field required"
EmailMsg     == "value is not a valid email address"

\* the validator without its increment check
rating_must_be_valid_range_only(value) ==
    IF ~(NumLeq(Num(10, 0), value) /\ NumLeq(value, Num(50, 0)))
    THEN RangeMsg
    ELSE ""

rating_must_be_valid(value) ==
    IF ~(NumLeq(Num(10, 0), value) /\ NumLeq(value, Num(50, 0)))
    THEN RangeMsg
    ELSE IF ~NumLeq(ScaledDistance(value), Num(0, epsilon))
    THEN IncrementMsg
    ELSE ""

\* a default off by one step
DefaultRating_35 == Num(35, 0)

DefaultRating == Num(30, 0)

\* UserCreate with the rating declared Optional and left unvalidated
UserCreateError_rating_unchecked(body) ==
    IF "username" \notin body.has THEN RequiredMsg
    ELSE IF "email" \notin body.has THEN RequiredMsg
    ELSE IF ~IsEmail(body.email) THEN EmailMsg
    ELSE ""

\* UserCreate: the first field error in declaration order, or "" when the
\* body validates.  The type check of rating precedes the field validator.
UserCreateError(body) ==
    IF "username" \notin body.has THEN RequiredMsg
    ELSE IF "email" \notin body.has THEN RequiredMsg
    ELSE IF ~IsEmail(body.email) THEN EmailMsg
    ELSE IF "rating" \notin body.has THEN ""
    ELSE IF body.rating_null THEN NumberMsg
    ELSE rating_must_be_valid(body.rating)

\* UserCreate after validation: defaults filled in (model_dump).
model_dump(body) ==
    [username  |-> body.username,
     email     |-> body.email,
     full_name |-> IF "full_name" \in body.has THEN body.full_name ELSE NoneStr,
     rating    |-> IF "rating" \in body.has THEN body.rating ELSE DefaultRating]

----------------------------------------------------------------------------
(* The users table and the storage engine.                                 *)

Dialects == {"sqlite", "postgresql"}

\* Column rating DECIMAL(precision=2, scale=1): an engine with a native
\* decimal type rounds the bound value to one fractional digit; SQLite
\* gives the column NUMERIC affinity and keeps the float it was handed.
StoredRating(d, value) ==
    IF d = "sqlite" THEN value ELSE Num(value.tenths, 0)

\* CHECK ck_users_rating_range: rating >= 1.0 AND rating <= 5.0
ck_users_rating_range(rating) ==
    NumLeq(Num(10, 0), rating) /\ NumLeq(rating, Num(50, 0))

\* CHECK ck_users_rating_increment: (rating * 10) % 5 = 0.  SQLite casts
\* both operands of % to INTEGER, truncating rating * 10; a decimal engine
\* takes the exact remainder.
ck_users_rating_increment(d, rating) ==
    IF d = "sqlite"
    THEN (IF rating.ulps < 0 THEN rating.tenths - 1 ELSE rating.tenths) % 5 = 0
    ELSE rating.tenths % 5 = 0 /\ rating.ulps = 0

\* columns declared without unique=True
UniqueViolation_none(table, row) == FALSE

\* username and email are unique=True: the insert of row is rejected when
\* a stored row has the same username or the same email.
UniqueViolation(table, row) ==
    \E i \in 1..Len(table) :
        \/ table[i].username = row.username
        \/ table[i].email = row.email

\* The row the engine would store for a validated UserCreate.
User(d, id, data) ==
    [id        |-> id,
     username  |-> data.username,
     email     |-> data.email,
     full_name |-> data.full_name,
     rating    |-> StoredRating(d, data.rating)]

\* a key that does not advance
AssignId_fixed(n) == 1

\* id is autoincrement: the key given to the n-th insert.
AssignId(n) == n

\* A sequence value handed out for an insert that then fails is lost on an
\* engine that draws keys from a sequence; SQLite's rowid is not consumed.
IdAfterFailedInsert(d, n) == IF d = "sqlite" THEN n ELSE n + 1

\* UserResponse built from a row: the Numeric column comes back as a
\* Decimal of scale 1, which the response carries as a float.
UserResponse(row) ==
    [id        |-> row.id,
     username  |-> row.username,
     email     |-> row.email,
     full_name |-> row.full_name,
     rating    |-> Num(row.rating.tenths, 0)]

\* a filter that never matches
Exists_never(table, column, value) == FALSE

\* query.filter(column == value).first(): is there a matching row
Exists(table, column, value) ==
    \E i \in 1..Len(table) : table[i][column] = value

\* a listing that drops the offset
Offset_ignored(table, skip) == table

\* query.offset(skip)
Offset(table, skip) ==
    [i \in 1..(IF Len(table) > skip THEN Len(table) - skip ELSE 0)
        |-> table[i + skip]]

\* query.limit(limit)
Limit(table, limit) ==
    [i \in 1..(IF Len(table) < limit THEN Len(table) ELSE limit) |-> table[i]]

----------------------------------------------------------------------------
(* Responses.  body is the list of records of a listing, the one record    *)
(* of a successful create, and empty for an error.                         *)

Response(status, detail, body) ==
    [status |-> status, detail |-> detail, body |-> body]

NoResp == Response(0, "", <<>>)

UsernameTaken == "Username already registered"
EmailTaken    == "Email already registered"
ServerError   == "Internal Server Error"

\* the two pre-checks in the other order
PreChecks_email_first ==
    << [column |-> "email",    detail |-> EmailTaken],
       [column |-> "username", detail |-> UsernameTaken] >>

\* The pre-checks of create_user in the order the handler runs them: the
\* column queried and the detail of the HTTPException raised on a match.
PreChecks ==
    << [column |-> "username", detail |-> UsernameTaken],
       [column |-> "email",    detail |-> EmailTaken] >>

PreCheckPc == <<"precheck1", "precheck2", "commit">>

----------------------------------------------------------------------------
(* Sessions.                                                               *)

\* get_db without try/finally: close() is skipped when the handler raises
get_db_no_finally(open, session, exc) ==
    IF exc THEN open ELSE open \ {session}

\* get_db, finally: db.close() runs on every exit of the request, whether
\* the handler returned (exc = FALSE) or raised (exc = TRUE).
get_db_finally(open, session, exc) == open \ {session}

\* get_db up to the yield: SessionLocal() makes the n-th session.
SessionLocal(n) == n

Init ==
    /\ dialect \in Dialects
    /\ users = <<>>
    /\ nextId = 1
    /\ nextSession = 1
    /\ openSessions = {}
    /\ pc = [r \in Reqs |-> "idle"]
    /\ kind = [r \in Reqs |-> "none"]
    /\ req = [r \in Reqs |-> NoReq]
    /\ db = [r \in Reqs |-> 0]
    /\ txn = [r \in Reqs |-> FALSE]
    /\ resp = [r \in Reqs |-> NoResp]

\* A request arrives in a free slot; its get_db dependency yields a session.
Begin(r, k, request, first) ==
    /\ pc[r] \in {"idle", "done"}
    /\ pc' = [pc EXCEPT ![r] = first]
    /\ kind' = [kind EXCEPT ![r] = k]
    /\ req' = [req EXCEPT ![r] = request]
    /\ db' = [db EXCEPT ![r] = SessionLocal(nextSession)]
    /\ openSessions' = openSessions \cup {SessionLocal(nextSession)}
    /\ nextSession' = nextSession + 1
    /\ txn' = [txn EXCEPT ![r] = FALSE]
    /\ resp' = [resp EXCEPT ![r] = NoResp]
    /\ UNCHANGED <<dialect, users, nextId>>

\* The request leaves its handler with a response; get_db closes the session.
End(r, response, exc) ==
    /\ pc' = [pc EXCEPT ![r] = "done"]
    /\ resp' = [resp EXCEPT ![r] = response]
    /\ openSessions' = get_db_finally(openSessions, db[r], exc)
    /\ UNCHANGED <<dialect, nextSession, kind, req, db>>

\* POST /users/
PostUsers(r, body) == Begin(r, "create", body, "validate")

\* The body is parsed into UserCreate; a validation error is a 422.
Validate(r) ==
    /\ pc[r] = "validate"
    /\ IF UserCreateError(req[r]) # ""
       THEN /\ End(r, Response(422, UserCreateError(req[r]), <<>>), TRUE)
            /\ UNCHANGED <<users, nextId, txn>>
       ELSE /\ pc' = [pc EXCEPT ![r] = PreCheckPc[1]]
            /\ UNCHANGED <<dialect, users, nextId, nextSession, openSessions,
                           kind, req, db, txn, resp>>

\* create_user, the i-th pre-check: query the column, raise 400 on a match.
PreCheck(r, i) ==
    /\ pc[r] = PreCheckPc[i]
    /\ txn' = [txn EXCEPT ![r] = TRUE]
    /\ UNCHANGED <<users, nextId>>
    /\ IF Exists(users, PreChecks[i].column,
                 model_dump(req[r])[PreChecks[i].column])
       THEN End(r, Response(400, PreChecks[i].detail, <<>>), TRUE)
       ELSE /\ pc' = [pc EXCEPT ![r] = PreCheckPc[i + 1]]
            /\ UNCHANGED <<dialect, nextSession, openSessions,
                           kind, req, db, resp>>

\* create_user, db.add / db.commit / db.refresh: the insert either fails
\* a constraint (IntegrityError, not caught: a 500) or stores the row.
Commit(r) ==
    /\ pc[r] = "commit"
    /\ txn' = [txn EXCEPT ![r] = TRUE]
    /\ LET row == User(dialect, AssignId(nextId), model_dump(req[r]))
       IN  IF \/ UniqueViolation(users, row)
              \/ ~ck_users_rating_range(row.rating)
              \/ ~ck_users_rating_increment(dialect, row.rating)
           THEN /\ End(r, Response(500, ServerError, <<>>), TRUE)
                /\ nextId' = IdAfterFailedInsert(dialect, nextId)
                /\ UNCHANGED users
           ELSE /\ End(r, Response(200, "", <<UserResponse(row)>>), FALSE)
                /\ users' = Append(users, row)
                /\ nextId' = nextId + 1

\* GET /users/?skip=&limit=
GetUsers(r, skip, limit) == Begin(r, "list", Query(skip, limit), "q_all")

\* read_users: db.query(User).offset(skip).limit(limit).all()
ReadUsers(r) ==
    /\ pc[r] = "q_all"
    /\ txn' = [txn EXCEPT ![r] = TRUE]
    /\ LET rows == Limit(Offset(users, req[r].skip), req[r].limit)
       IN  End(r, Response(200, "",
                    [i \in 1..Len(rows) |-> UserResponse(rows[i])]), FALSE)
    /\ UNCHANGED <<users, nextId>>

----------------------------------------------------------------------------
(* Inputs.                                                                 *)

Usernames == {"alice", "bob"}
Emails    == {<<"a", "@", "x", ".", "y">>, <<"b", "@", "x", ".", "y">>}

Plain    == {"username", "email"}
WithAll  == {"username", "email", "full_name", "rating"}

\* Bodies of the concurrent specification: every username/email pair with
\* the rating omitted, and one body with a rating off the 0.5 grid.
Bodies ==
    {Body(Plain, u, e, NoneStr, FALSE, Num(0, 0)) : u \in Usernames, e \in Emails}
    \cup {Body(WithAll, "alice", <<"a", "@", "x", ".", "y">>, "Al", FALSE, Num(32, 0))}

\* read_users(skip: int = 0, limit: int = 100)
DefaultSkip  == 0
DefaultLimit == 100

Next ==
    \E r \in Reqs :
        \/ /\ nextSession <= MaxRequests
           /\ \E body \in Bodies : PostUsers(r, body)
        \/ /\ nextSession <= MaxRequests
           /\ GetUsers(r, DefaultSkip, DefaultLimit)
        \/ Validate(r)
        \/ PreCheck(r, 1)
        \/ PreCheck(r, 2)
        \/ Commit(r)
        \/ ReadUsers(r)

Spec == Init /\ [][Next]_vars

----------------------------------------------------------------------------
(* The serial specification: one request at a time, as the test suite      *)
(* drives the application, over a wide set of bodies.                      *)

BadEmails ==
    { <<"a", "x", ".", "y">>,                 \* no "@"
      <<"a", "@", "b", "@", "x", ".", "y">>,  \* two "@"
      <<"@", "x", ".", "y">>,                 \* empty local part
      <<"a", "@", "x">> }                     \* domain without a dot

\* Numeric ratings: the nine accepted values, values off the 0.5 grid,
\* values outside the range, and values a few 1e-10 away from the grid.
\* A distance of exactly 5e-10 is left out: there the binary rounding of
\* the float decides on which side of epsilon the difference falls.
Ratings ==
    {Num(5 * k, 0) : k \in 1..11}
    \cup {Num(32, 0), Num(10, -1), Num(50, 1),
          Num(30, 1), Num(30, -1), Num(30, 6), Num(30, -6)}

SerialBodies ==
    {Body({"username", "email", "rating"}, u, e, NoneStr, FALSE, x)
        : u \in Usernames, e \in Emails, x \in Ratings}
    \cup {Body(Plain, u, <<"a", "@", "x", ".", "y">>, NoneStr, FALSE, Num(0, 0))
            : u \in Usernames}
    \cup {Body(WithAll, u, <<"a", "@", "x", ".", "y">>, "Al", TRUE, Num(0, 0))
            : u \in Usernames}
    \cup {Body({"email", "rating"}, "", <<"a", "@", "x", ".", "y">>,
               NoneStr, FALSE, Num(30, 0))}
    \cup {Body({"username", "rating"}, u, <<>>, NoneStr, FALSE, Num(30, 0))
            : u \in Usernames}
    \cup {Body(WithAll, u, e, "Al", FALSE, Num(30, 0))
            : u \in Usernames, e \in BadEmails}

SerialNext ==
    \/ /\ nextSession <= MaxSerial
       /\ \E body \in SerialBodies : PostUsers(1, body)
    \/ /\ nextSession <= MaxSerial
       /\ \E skip \in 0..MaxSkip, limit \in 0..MaxLimit : GetUsers(1, skip, limit)
    \/ Validate(1)
    \/ PreCheck(1, 1)
    \/ PreCheck(1, 2)
    \/ Commit(1)
    \/ ReadUsers(1)

SerialSpec == Init /\ [][SerialNext]_vars

----------------------------------------------------------------------------
(* Properties.                                                             *)

\* slot r takes a step of its create_user handler from position p
Leaves(r, p) == kind[r] = "create" /\ pc[r] = p /\ pc'[r] # p

\* a stored row carries this username / this email
UsernameStored(u) == \E i \in 1..Len(users) : users[i].username = u
EmailStored(e)    == \E i \in 1..Len(users) : users[i].email = e

Conflict(detail) == Response(400, detail, <<>>)

OnGrid(x) == x.ulps = 0 /\ \E k \in 2..10 : x.tenths = 5 * k

InRange(x) == /\ x.tenths >= 10 /\ (x.tenths = 10 => x.ulps >= 0)
              /\ x.tenths <= 50 /\ (x.tenths = 50 => x.ulps <= 0)

\* within 1e-9 of an integer after doubling: at most 5e-10 from the grid
NearGrid(x) == x.tenths % 5 = 0 /\ x.ulps >= -5 /\ x.ulps <= 5

\* a body that is well-formed apart, possibly, from the value of its rating
RatingSupplied(b) ==
    /\ {"username", "email", "rating"} \subseteq b.has
    /\ b.email \in Emails
    /\ ~b.rating_null

Fresh(b) == ~UsernameStored(b.username) /\ ~EmailStored(b.email)

\* C2 as stated: with a rating supplied and username and email not stored,
\* the create succeeds iff the rating is one of the nine values; outside
\* [1.0, 5.0] it gets the range error, inside the range and off the 0.5
\* grid it gets the increment error.
C2_Original ==
    [][\A r \in Reqs :
         /\ Leaves(r, "validate") /\ RatingSupplied(req[r]) =>
              /\ ~InRange(req[r].rating) =>
                     resp'[r] = Response(422, RangeMsg, <<>>)
              /\ InRange(req[r].rating) /\ ~OnGrid(req[r].rating) =>
                     resp'[r] = Response(422, IncrementMsg, <<>>)
              /\ OnGrid(req[r].rating) => pc'[r] = "precheck1"
         /\ Leaves(r, "commit") /\ RatingSupplied(req[r]) /\ Fresh(req[r]) =>
              (resp'[r].status = 200 <=> OnGrid(req[r].rating))]_vars

\* C2 amended: a supplied rating passes validation iff it lies in
\* [1.0, 5.0] and its double is within 1e-9 of an integer; outside the
\* range it gets the range error (422), inside the range and farther from
\* the 0.5 grid it gets the increment error (422); with username and email
\* not stored, each of the nine values 1.0, 1.5, ..., 5.0 is stored and
\* returned with status 200.
C2_Rating ==
    [][\A r \in Reqs :
         /\ Leaves(r, "validate") /\ RatingSupplied(req[r]) =>
              /\ ~InRange(req[r].rating) =>
                     /\ resp'[r] = Response(422, RangeMsg, <<>>)
                     /\ pc'[r] = "done"
              /\ InRange(req[r].rating) /\ ~NearGrid(req[r].rating) =>
                     /\ resp'[r] = Response(422, IncrementMsg, <<>>)
                     /\ pc'[r] = "done"
              /\ InRange(req[r].rating) /\ NearGrid(req[r].rating) =>
                     pc'[r] = "precheck1" /\ resp'[r] = NoResp
         /\ Leaves(r, "commit") /\ RatingSupplied(req[r]) /\ Fresh(req[r])
              /\ OnGrid(req[r].rating) =>
              /\ resp'[r].status = 200
              /\ resp'[r].body[1].rating = req[r].rating
              /\ Len(users') = Len(users) + 1
              /\ users'[Len(users')].rating = req[r].rating]_vars

\* C2 witness: a rating 1e-10 above 3.0 was accepted and stored, after a
\* create with rating 5.0 succeeded.
C2_Witness ==
    /\ Len(users) = 2
    /\ users[1].rating = Num(50, 0)
    /\ pc[1] = "done" /\ resp[1].status = 200
    /\ req[1].rating = Num(30, 1)

\* C3: when a create_user request reaches its commit and a row with its
\* username has been stored since its pre-check, the write is rejected and
\* the request gets the 400 "Username already registered" conflict error.
C3_RaceConflict ==
    [][\A r \in Reqs :
         Leaves(r, "commit") /\ UsernameStored(req[r].username) =>
            resp'[r] = Conflict(UsernameTaken) /\ users' = users]_vars

\* C4: no two stored rows share a username and no two share an email.
C4_Unique ==
    \A i, j \in 1..Len(users) :
        i # j => /\ users[i].username # users[j].username
                 /\ users[i].email # users[j].email

\* C4 witness: two creates with the same username both passed the
\* pre-checks; one was stored and the other was rejected at commit.
C4_Witness ==
    \E r1, r2 \in Reqs :
        /\ r1 # r2
        /\ pc[r1] = "done" /\ resp[r1].status = 200
        /\ pc[r2] = "done" /\ resp[r2].status = 500
        /\ req[r1].username = req[r2].username
        /\ UsernameStored(req[r2].username)

Min(a, b) == IF a < b THEN a ELSE b
Max(a, b) == IF a > b THEN a ELSE b

\* C5: for skip >= 0 and limit >= 1, with n rows stored, the listing holds
\* min(limit, max(0, n - skip)) records, the i-th being the (skip+i)-th row
\* created.
C5_Pagination ==
    [][\A r \in Reqs :
         kind[r] = "list" /\ pc[r] = "q_all" /\ pc'[r] = "done"
         /\ req[r].skip >= 0 /\ req[r].limit >= 1 =>
            /\ resp'[r].status = 200
            /\ Len(resp'[r].body) =
                   Min(req[r].limit, Max(0, Len(users) - req[r].skip))
            /\ \A i \in 1..Len(resp'[r].body) :
                   /\ resp'[r].body[i].id = users[req[r].skip + i].id
                   /\ resp'[r].body[i].username = users[req[r].skip + i].username
                   /\ resp'[r].body[i].email = users[req[r].skip + i].email
            /\ \A i, j \in 1..Len(resp'[r].body) :
                   i < j => resp'[r].body[i].id < resp'[r].body[j].id
            /\ users' = users]_vars

\* C5 witness: with two rows stored, skip=1 limit=2 returned the second
\* row alone.
C5_Witness ==
    \E r \in Reqs :
        /\ kind[r] = "list" /\ pc[r] = "done"
        /\ req[r].skip = 1 /\ req[r].limit = 2
        /\ Len(users) = 2
        /\ Len(resp[r].body) = 1
        /\ resp[r].body[1].id = users[2].id

\* C6: a create_user request without a rating key, with valid username and
\* email, passes validation and, its username and email not being stored,
\* succeeds; the stored row and the returned record have rating 3.0.
C6_Default ==
    [][\A r \in Reqs :
         LET omitted == /\ {"username", "email"} \subseteq req[r].has
                        /\ "rating" \notin req[r].has
                        /\ req[r].email \in Emails
         IN  /\ Leaves(r, "validate") /\ omitted => pc'[r] = "precheck1"
             /\ Leaves(r, "commit") /\ omitted /\ Fresh(req[r]) =>
                  /\ resp'[r].status = 200
                  /\ resp'[r].body[1].rating = Num(30, 0)
                  /\ Len(users') = Len(users) + 1
                  /\ users'[Len(users')].rating = Num(30, 0)
                  /\ users'[Len(users')].username = req[r].username]_vars

\* C6 witness: a request without rating succeeded.
C6_Witness ==
    \E r \in Reqs :
        /\ pc[r] = "done" /\ kind[r] = "create"
        /\ "rating" \notin req[r].has
        /\ resp[r].status = 200
        /\ \E i \in 1..Len(users) :
              users[i].username = req[r].username /\ users[i].rating = Num(30, 0)

InFlight(r) == pc[r] \notin {"idle", "done"}

\* C7: every request in flight holds an open session of its own; once the
\* request has ended, whether with success, a 4xx error or a failed
\* commit, its session is closed; no session is open without a request in
\* flight and no two requests have the same session.
C7_SessionScope ==
    /\ \A r \in Reqs : InFlight(r) => db[r] \in openSessions
    /\ \A r \in Reqs : pc[r] = "done" => db[r] \notin openSessions
    /\ \A s \in openSessions : \E r \in Reqs : InFlight(r) /\ db[r] = s
    /\ \A r1, r2 \in Reqs :
          r1 # r2 /\ pc[r1] # "idle" /\ pc[r2] # "idle" => db[r1] # db[r2]

\* C7 witness: one request ended in a failed commit and a request started
\* later is in flight, holding the only open session.
C7_Witness ==
    \E r1, r2 \in Reqs :
        /\ pc[r1] = "done" /\ resp[r1].status = 500
        /\ InFlight(r2) /\ db[r2] > db[r1]
        /\ openSessions = {db[r2]}

\* a body in one of the malformed classes
Malformed(b) ==
    \/ "username" \notin b.has
    \/ "email" \notin b.has
    \/ b.email \in BadEmails
    \/ "rating" \in b.has /\ b.rating_null
    \/ "rating" \in b.has /\ ~b.rating_null /\ ~InRange(b.rating)
    \/ "rating" \in b.has /\ ~b.rating_null /\ ~NearGrid(b.rating)

\* C8: a create_user request that fails validation (missing username or
\* email, invalid email, null rating, rating out of range or off the 0.5
\* grid) ends with 422 at validation: its session has sent no statement,
\* the table is unchanged, also when its username or email is stored.
C8_ValidationFirst ==
    [][\A r \in Reqs :
         Leaves(r, "validate") /\ Malformed(req[r]) =>
            /\ resp'[r].status = 422
            /\ pc'[r] = "done"
            /\ ~txn[r] /\ ~txn'[r]
            /\ users' = users /\ nextId' = nextId]_vars

\* C8 witness: a request with a stored username and a stored email got a
\* 422.
C8_Witness ==
    /\ pc[1] = "done" /\ kind[1] = "create"
    /\ resp[1].status = 422
    /\ ~txn[1]
    /\ UsernameStored(req[1].username)
    /\ EmailStored(req[1].email)

\* C9: every step keeps every stored row as it is, in place; a row added
\* has an id no stored row has and no earlier insert was given.
C9_Immutable ==
    [][/\ Len(users') >= Len(users)
       /\ \A i \in 1..Len(users) : users'[i] = users[i]
       /\ \A j \in (Len(users) + 1)..Len(users') :
             /\ \A i \in 1..Len(users) : users'[j].id # users[i].id
             /\ users'[j].id >= nextId
       /\ nextId' >= nextId]_vars

\* C9 witness: two rows are stored and a listing has been served.
C9_Witness ==
    /\ Len(users) = 2
    /\ users[1].id # users[2].id
    /\ \E r \in Reqs : kind[r] = "list" /\ pc[r] = "done" /\ Len(resp[r].body) = 2

====
